---- MODULE Spec2Model ----
(***************************************************************************)
(* State-machine model of the CertificateVerification smart contract       *)
(* (src/contracts/CertificateVerification.sol).  Every external function   *)
(* of the contract is one action; a transaction that hits a failing        *)
(* require() reverts, i.e. leaves the contract storage untouched.          *)
(***************************************************************************)
EXTENDS Integers, Sequences, FiniteSets, TLC

(* ------------------------------ bounds --------------------------------- *)

\* at most this many certificates are issued in a run
MaxCerts == 2

(* ------------------------------ inputs --------------------------------- *)

\* the address that deploys the contract, and another one
Deployer == "0xDeployer"

Addresses == {Deployer, "0xOther"}

\* values of block.timestamp, in increasing order
BlockTimestamps == {1700000000, 1700000600}

\* block.timestamp of the block that deployed the contract
DeployTimestamp == CHOOSE t \in BlockTimestamps : \A u \in BlockTimestamps : t <= u

ParticipantNames == {"", "Alice", "Bob"}

EventNames == {"", "Contest2024"}

CertificateHashes == {"", "aaa111", "zzz999", "bbb222"}

\* ids a caller may pass: 0, every id that can be issued, and ids beyond
CertificateIds == 0..(MaxCerts + 1)

(* ------------------------------- state --------------------------------- *)

VARIABLES
    certificates,         \* mapping(uint256 => Certificate)
    hashToCertificateId,  \* mapping(string => uint256)
    nextCertificateId,    \* uint256, counter for certificate ids
    owner,                \* address
    events,               \* the log of CertificateIssued events, oldest first
    blockTimestamp,       \* block.timestamp of the current block
    lastCall              \* the latest call: function, sender, arguments, outcome

vars == <<certificates, hashToCertificateId, nextCertificateId, owner,
          events, blockTimestamp, lastCall>>

VARIABLES
    requests,             \* the POST /issue requests: handler position, inputs, response
    uploads,              \* the files in the uploads directory, by the request that stored them
    response,             \* the latest response of a verify route
    totalBefore,          \* getTotalCertificates before the first request
    overlapped            \* two requests have been inside issueCertificate at once

apiVars == <<requests, uploads, response, totalBefore, overlapped>>

allVars == <<vars, apiVars>>

\* the contract storage
storage == <<certificates, hashToCertificateId, nextCertificateId, owner>>

\* a storage slot never written reads as the zero value of its type
Certificate(participantName, eventName, certificateHash, timestamp, isValid) ==
    [participantName |-> participantName, eventName |-> eventName,
     certificateHash |-> certificateHash, timestamp |-> timestamp,
     isValid |-> isValid]

ZeroCertificate == Certificate("", "", "", 0, FALSE)

\* bytes(s).length
bytesLength(s) == Len(s)

(* --------------------------- revert reasons ---------------------------- *)

NoRevert == "none"
UnauthorizedError == "Only owner can call this function"
ParticipantEmptyError == "Participant name cannot be empty"
EventEmptyError == "Event name cannot be empty"
HashEmptyError == "Certificate hash cannot be empty"
ValidationError == {ParticipantEmptyError, EventEmptyError, HashEmptyError}
DuplicateHashError == "Certificate with this hash already exists"
NotFoundError == "Invalid certificate ID"
AlreadyRevokedError == "Certificate is already revoked"

(* ------------------------------ call log ------------------------------- *)

Returned(fn, sender, args, ret) ==
    [fn |-> fn, sender |-> sender, args |-> args,
     reverted |-> FALSE, reason |-> NoRevert, ret |-> ret]

Reverted(fn, sender, args, reason) ==
    [fn |-> fn, sender |-> sender, args |-> args,
     reverted |-> TRUE, reason |-> reason, ret |-> <<>>]

CertificateIssued(certificateId, participantName, eventName, certificateHash) ==
    [name |-> "CertificateIssued", certificateId |-> certificateId,
     participantName |-> participantName, eventName |-> eventName,
     certificateHash |-> certificateHash]

(* ---------------------------- view functions --------------------------- *)

\* faulty variant: the not-found tuple carries isValid = true
verifyCertificateByHash_notFoundValid(_certificateHash) ==
    LET certificateId == hashToCertificateId[_certificateHash]
        cert == certificates[certificateId]
    IN  IF certificateId = 0
        THEN <<FALSE, 0, "", "", 0, TRUE>>
        ELSE <<TRUE, certificateId, cert.participantName, cert.eventName,
               cert.timestamp, cert.isValid>>

verifyCertificateByHash(_certificateHash) ==
    LET certificateId == hashToCertificateId[_certificateHash]
        cert == certificates[certificateId]
    IN  IF certificateId = 0
        THEN <<FALSE, 0, "", "", 0, FALSE>>
        ELSE <<TRUE, certificateId, cert.participantName, cert.eventName,
               cert.timestamp, cert.isValid>>

\* faulty variant: the upper end of the range test is off by one
verifyCertificateById_inclusive(_certificateId) ==
    LET cert == certificates[_certificateId]
    IN  IF _certificateId = 0 \/ _certificateId > nextCertificateId
        THEN <<FALSE, "", "", "", 0, FALSE>>
        ELSE <<TRUE, cert.participantName, cert.eventName,
               cert.certificateHash, cert.timestamp, cert.isValid>>

verifyCertificateById(_certificateId) ==
    LET cert == certificates[_certificateId]
    IN  IF _certificateId = 0 \/ _certificateId >= nextCertificateId
        THEN <<FALSE, "", "", "", 0, FALSE>>
        ELSE <<TRUE, cert.participantName, cert.eventName,
               cert.certificateHash, cert.timestamp, cert.isValid>>

\* faulty variant: the counter itself is returned
getTotalCertificates_offByOne == nextCertificateId

getTotalCertificates == nextCertificateId - 1

(* ------------------------------ modifier ------------------------------- *)

\* faulty variant: the modifier lets every caller through
onlyOwner_anyone(sender) == TRUE

onlyOwner(sender) == sender = owner

(* --------------------------- issueCertificate -------------------------- *)

\* faulty variant: the duplicate-hash require() is missing
issueCertificateRequires_noDuplicateCheck(sender, _participantName, _eventName, _certificateHash) ==
    IF ~onlyOwner(sender) THEN UnauthorizedError
    ELSE IF ~(bytesLength(_participantName) > 0) THEN ParticipantEmptyError
    ELSE IF ~(bytesLength(_eventName) > 0) THEN EventEmptyError
    ELSE IF ~(bytesLength(_certificateHash) > 0) THEN HashEmptyError
    ELSE NoRevert

\* faulty variant: the empty-hash require() is missing
issueCertificateRequires_noHashCheck(sender, _participantName, _eventName, _certificateHash) ==
    IF ~onlyOwner(sender) THEN UnauthorizedError
    ELSE IF ~(bytesLength(_participantName) > 0) THEN ParticipantEmptyError
    ELSE IF ~(bytesLength(_eventName) > 0) THEN EventEmptyError
    ELSE IF ~(hashToCertificateId[_certificateHash] = 0) THEN DuplicateHashError
    ELSE NoRevert

\* faulty variant: the empty-event-name require() is missing
issueCertificateRequires_noEventCheck(sender, _participantName, _eventName, _certificateHash) ==
    IF ~onlyOwner(sender) THEN UnauthorizedError
    ELSE IF ~(bytesLength(_participantName) > 0) THEN ParticipantEmptyError
    ELSE IF ~(bytesLength(_certificateHash) > 0) THEN HashEmptyError
    ELSE IF ~(hashToCertificateId[_certificateHash] = 0) THEN DuplicateHashError
    ELSE NoRevert

\* the first require() that fails, in source order, or NoRevert
issueCertificateRequires(sender, _participantName, _eventName, _certificateHash) ==
    IF ~onlyOwner(sender) THEN UnauthorizedError
    ELSE IF ~(bytesLength(_participantName) > 0) THEN ParticipantEmptyError
    ELSE IF ~(bytesLength(_eventName) > 0) THEN EventEmptyError
    ELSE IF ~(bytesLength(_certificateHash) > 0) THEN HashEmptyError
    ELSE IF ~(hashToCertificateId[_certificateHash] = 0) THEN DuplicateHashError
    ELSE NoRevert

\* faulty variant: the two name fields are stored swapped
newCertificate_swapped(_participantName, _eventName, _certificateHash) ==
    Certificate(_eventName, _participantName, _certificateHash, blockTimestamp, TRUE)

newCertificate(_participantName, _eventName, _certificateHash) ==
    Certificate(_participantName, _eventName, _certificateHash, blockTimestamp, TRUE)

\* faulty variant: nextCertificateId is not incremented
issueCertificate_noIncrement(sender, _participantName, _eventName, _certificateHash) ==
    LET reason == issueCertificateRequires(sender, _participantName,
                                           _eventName, _certificateHash)
        args == <<_participantName, _eventName, _certificateHash>>
        certificateId == nextCertificateId
    IN  /\ reason # NoRevert \/ nextCertificateId <= MaxCerts
        /\ IF reason # NoRevert
           THEN /\ lastCall' = Reverted("issueCertificate", sender, args, reason)
                /\ UNCHANGED <<storage, events, blockTimestamp>>
           ELSE /\ certificates' =
                      [certificates EXCEPT ![certificateId] =
                          newCertificate(_participantName, _eventName,
                                         _certificateHash)]
                /\ hashToCertificateId' =
                      [hashToCertificateId EXCEPT ![_certificateHash] = certificateId]
                /\ events' = Append(events,
                      CertificateIssued(certificateId, _participantName,
                                        _eventName, _certificateHash))
                /\ lastCall' = Returned("issueCertificate", sender, args,
                                        <<certificateId>>)
                /\ UNCHANGED <<nextCertificateId, owner, blockTimestamp>>

\* faulty variant: the id is allocated before the duplicate check and the failure
\* does not undo it
issueCertificate_partial(sender, _participantName, _eventName, _certificateHash) ==
    LET reason == issueCertificateRequires(sender, _participantName,
                                           _eventName, _certificateHash)
        args == <<_participantName, _eventName, _certificateHash>>
        certificateId == nextCertificateId
    IN  /\ nextCertificateId <= MaxCerts
        /\ IF reason = DuplicateHashError
           THEN /\ lastCall' = Reverted("issueCertificate", sender, args, reason)
                /\ nextCertificateId' = nextCertificateId + 1
                /\ UNCHANGED <<certificates, hashToCertificateId, owner, events,
                               blockTimestamp>>
           ELSE IF reason # NoRevert
           THEN /\ lastCall' = Reverted("issueCertificate", sender, args, reason)
                /\ UNCHANGED <<storage, events, blockTimestamp>>
           ELSE /\ certificates' =
                      [certificates EXCEPT ![certificateId] =
                          newCertificate(_participantName, _eventName,
                                         _certificateHash)]
                /\ hashToCertificateId' =
                      [hashToCertificateId EXCEPT ![_certificateHash] = certificateId]
                /\ nextCertificateId' = nextCertificateId + 1
                /\ events' = Append(events,
                      CertificateIssued(certificateId, _participantName,
                                        _eventName, _certificateHash))
                /\ lastCall' = Returned("issueCertificate", sender, args,
                                        <<certificateId>>)
                /\ UNCHANGED <<owner, blockTimestamp>>

issueCertificate(sender, _participantName, _eventName, _certificateHash) ==
    LET reason == issueCertificateRequires(sender, _participantName,
                                           _eventName, _certificateHash)
        args == <<_participantName, _eventName, _certificateHash>>
        certificateId == nextCertificateId
    IN  /\ reason # NoRevert \/ nextCertificateId <= MaxCerts
        /\ IF reason # NoRevert
           THEN /\ lastCall' = Reverted("issueCertificate", sender, args, reason)
                /\ UNCHANGED <<storage, events, blockTimestamp>>
           ELSE /\ certificates' =
                      [certificates EXCEPT ![certificateId] =
                          newCertificate(_participantName, _eventName,
                                         _certificateHash)]
                /\ hashToCertificateId' =
                      [hashToCertificateId EXCEPT ![_certificateHash] = certificateId]
                /\ nextCertificateId' = nextCertificateId + 1
                /\ events' = Append(events,
                      CertificateIssued(certificateId, _participantName,
                                        _eventName, _certificateHash))
                /\ lastCall' = Returned("issueCertificate", sender, args,
                                        <<certificateId>>)
                /\ UNCHANGED <<owner, blockTimestamp>>

(* --------------------------- revokeCertificate ------------------------- *)

\* faulty variant: the already-revoked require() is missing
revokeCertificateRequires_noRevokedCheck(sender, _certificateId) ==
    IF ~onlyOwner(sender) THEN UnauthorizedError
    ELSE IF ~(_certificateId > 0 /\ _certificateId < nextCertificateId)
         THEN NotFoundError
    ELSE NoRevert

\* faulty variant: the already-revoked require() comes before the range one
revokeCertificateRequires_swapped(sender, _certificateId) ==
    IF ~onlyOwner(sender) THEN UnauthorizedError
    ELSE IF ~certificates[_certificateId].isValid THEN AlreadyRevokedError
    ELSE IF ~(_certificateId > 0 /\ _certificateId < nextCertificateId)
         THEN NotFoundError
    ELSE NoRevert

revokeCertificateRequires(sender, _certificateId) ==
    IF ~onlyOwner(sender) THEN UnauthorizedError
    ELSE IF ~(_certificateId > 0 /\ _certificateId < nextCertificateId)
         THEN NotFoundError
    ELSE IF ~certificates[_certificateId].isValid THEN AlreadyRevokedError
    ELSE NoRevert

\* faulty variant: revoking flips the flag, and a revoked record passes the check
revokeCertificate_toggle(sender, _certificateId) ==
    LET reason == revokeCertificateRequires_noRevokedCheck(sender, _certificateId)
        args == <<_certificateId>>
    IN  IF reason # NoRevert
        THEN /\ lastCall' = Reverted("revokeCertificate", sender, args, reason)
             /\ UNCHANGED <<storage, events, blockTimestamp>>
        ELSE /\ certificates' =
                   [certificates EXCEPT ![_certificateId].isValid =
                       ~certificates[_certificateId].isValid]
             /\ lastCall' = Returned("revokeCertificate", sender, args, <<>>)
             /\ UNCHANGED <<hashToCertificateId, nextCertificateId, owner,
                            events, blockTimestamp>>

\* faulty variant: revoking deletes the record
revokeCertificate_delete(sender, _certificateId) ==
    LET reason == revokeCertificateRequires(sender, _certificateId)
        args == <<_certificateId>>
    IN  IF reason # NoRevert
        THEN /\ lastCall' = Reverted("revokeCertificate", sender, args, reason)
             /\ UNCHANGED <<storage, events, blockTimestamp>>
        ELSE /\ certificates' =
                   [certificates EXCEPT ![_certificateId] = ZeroCertificate]
             /\ lastCall' = Returned("revokeCertificate", sender, args, <<>>)
             /\ UNCHANGED <<hashToCertificateId, nextCertificateId, owner,
                            events, blockTimestamp>>

\* faulty variant: revoking also removes the hash from the index
revokeCertificate_unindex(sender, _certificateId) ==
    LET reason == revokeCertificateRequires(sender, _certificateId)
        args == <<_certificateId>>
    IN  IF reason # NoRevert
        THEN /\ lastCall' = Reverted("revokeCertificate", sender, args, reason)
             /\ UNCHANGED <<storage, events, blockTimestamp>>
        ELSE /\ certificates' =
                   [certificates EXCEPT ![_certificateId].isValid = FALSE]
             /\ hashToCertificateId' =
                   [hashToCertificateId EXCEPT
                       ![certificates[_certificateId].certificateHash] = 0]
             /\ lastCall' = Returned("revokeCertificate", sender, args, <<>>)
             /\ UNCHANGED <<nextCertificateId, owner, events, blockTimestamp>>

revokeCertificate(sender, _certificateId) ==
    LET reason == revokeCertificateRequires(sender, _certificateId)
        args == <<_certificateId>>
    IN  IF reason # NoRevert
        THEN /\ lastCall' = Reverted("revokeCertificate", sender, args, reason)
             /\ UNCHANGED <<storage, events, blockTimestamp>>
        ELSE /\ certificates' =
                   [certificates EXCEPT ![_certificateId].isValid = FALSE]
             /\ lastCall' = Returned("revokeCertificate", sender, args, <<>>)
             /\ UNCHANGED <<hashToCertificateId, nextCertificateId, owner,
                            events, blockTimestamp>>

(* ------------------------------ view calls ----------------------------- *)

\* the view functions do not read msg.sender
NoSender == "any"

callVerifyCertificateByHash(_certificateHash) ==
    /\ lastCall' = Returned("verifyCertificateByHash", NoSender,
                            <<_certificateHash>>,
                            verifyCertificateByHash(_certificateHash))
    /\ UNCHANGED <<storage, events, blockTimestamp>>

callVerifyCertificateById(_certificateId) ==
    /\ lastCall' = Returned("verifyCertificateById", NoSender,
                            <<_certificateId>>,
                            verifyCertificateById(_certificateId))
    /\ UNCHANGED <<storage, events, blockTimestamp>>

callGetTotalCertificates ==
    /\ lastCall' = Returned("getTotalCertificates", NoSender, <<>>,
                            <<getTotalCertificates>>)
    /\ UNCHANGED <<storage, events, blockTimestamp>>

(* ---------------------------- specification ---------------------------- *)

\* faulty variant: the constructor leaves owner at the zero address
constructor_ownerUnset ==
    /\ certificates = [i \in CertificateIds |-> ZeroCertificate]
    /\ hashToCertificateId = [h \in CertificateHashes |-> 0]
    /\ nextCertificateId = 1
    /\ owner = "0x0"
    /\ events = <<>>
    /\ blockTimestamp = DeployTimestamp
    /\ lastCall = Returned("constructor", Deployer, <<>>, <<>>)

\* the contract right after the constructor ran, deployed by Deployer
constructor ==
    /\ certificates = [i \in CertificateIds |-> ZeroCertificate]
    /\ hashToCertificateId = [h \in CertificateHashes |-> 0]
    /\ nextCertificateId = 1
    /\ owner = Deployer
    /\ events = <<>>
    /\ blockTimestamp = DeployTimestamp
    /\ lastCall = Returned("constructor", Deployer, <<>>, <<>>)

\* a new block is mined: block.timestamp grows from one block to the next,
\* and the transactions of one block share it
MineBlock ==
    /\ \E t \in BlockTimestamps : t > blockTimestamp /\ blockTimestamp' = t
    /\ UNCHANGED <<storage, events, lastCall>>
    /\ UNCHANGED apiVars

Issue ==
    /\ \E sender \in Addresses, p \in ParticipantNames, e \in EventNames,
          h \in CertificateHashes :
           issueCertificate(sender, p, e, h)
    /\ UNCHANGED apiVars

Revoke ==
    /\ \E sender \in Addresses, id \in CertificateIds :
           revokeCertificate(sender, id)
    /\ UNCHANGED apiVars

VerifyByHash ==
    /\ \E h \in CertificateHashes :
           callVerifyCertificateByHash(h)
    /\ UNCHANGED apiVars

VerifyById ==
    /\ \E id \in CertificateIds :
           callVerifyCertificateById(id)
    /\ UNCHANGED apiVars

GetTotal ==
    /\ callGetTotalCertificates
    /\ UNCHANGED apiVars

Next == MineBlock \/ Issue \/ Revoke \/ VerifyByHash \/ VerifyById \/ GetTotal

(* ----------------------------- API service ----------------------------- *)

\* the two POST /issue requests
RequestIds == {"reqA", "reqB"}

\* req.file is undefined
NoFile == "no file"

\* the bytes of the uploaded files
FileContents == {"pdfA", "pdfB"}

\* JavaScript null
Null == [null |-> TRUE]

\* the wallet of PRIVATE_KEY: the key that deployed the contract
Wallet == Deployer

\* sha256 of the file bytes as hex: different bytes give different digests
generateFileHash(fileBuffer) ==
    CASE fileBuffer = "pdfA" -> "aaa111"
      [] fileBuffer = "pdfB" -> "zzz999"

\* new Date(Number(timestamp) * 1000).toISOString(): the seconds become
\* milliseconds (three more decimal digits) and the date is written as text
toISOString(timestamp) == "Date:" \o ToString(timestamp) \o "000"

NoRequest ==
    [pc |-> "none", participantName |-> "", eventName |-> "", file |-> NoFile,
     certificateHash |-> "", status |-> 0, success |-> FALSE,
     certificateId |-> Null, error |-> "", message |-> ""]

\* res.status(status).json(...) ends the request
Respond(req, status, success, certificateId, error, message) ==
    [req EXCEPT !.pc = "done", !.status = status, !.success = success,
                !.certificateId = certificateId, !.error = error,
                !.message = message]

InService(r) == requests[r].pc \in {"estimating", "sending", "waiting"}

\* multer stores the uploaded file, if any, before the handler runs
Upload(r, participantName, eventName, file) ==
    /\ requests[r].pc = "none"
    /\ requests' = [requests EXCEPT ![r] =
           [NoRequest EXCEPT !.pc = "uploaded",
                             !.participantName = participantName,
                             !.eventName = eventName, !.file = file]]
    /\ uploads' = IF file # NoFile THEN uploads \cup {r} ELSE uploads
    /\ UNCHANGED <<vars, response, totalBefore, overlapped>>

\* the handler up to its first await: the two 400 answers, else fs.readFile
PostIssueValidate(r) ==
    LET req == requests[r]
    IN  /\ req.pc = "uploaded"
        /\ requests' = [requests EXCEPT ![r] =
               IF req.participantName = "" \/ req.eventName = ""
               THEN Respond(req, 400, FALSE, Null, "Missing required fields",
                            "participantName and eventName are required")
               ELSE IF req.file = NoFile
               THEN Respond(req, 400, FALSE, Null, "No file uploaded",
                            "Please upload a certificate file")
               ELSE [req EXCEPT !.pc = "reading"]]
        /\ UNCHANGED <<vars, uploads, response, totalBefore, overlapped>>

\* fs.readFile returns and the hash is taken, or it throws and the catch
\* removes the file
PostIssueReadFile(r, readOk) ==
    LET req == requests[r]
    IN  /\ req.pc = "reading"
        /\ IF readOk
           THEN /\ requests' = [requests EXCEPT ![r] =
                       [req EXCEPT !.pc = "estimating",
                                   !.certificateHash = generateFileHash(req.file)]]
                /\ overlapped' = (overlapped \/ \E q \in RequestIds \ {r} : InService(q))
                /\ UNCHANGED uploads
           ELSE /\ requests' = [requests EXCEPT ![r] =
                       Respond(req, 500, FALSE, Null, "Internal server error",
                               "read failed")]
                /\ uploads' = uploads \ {r}
                /\ UNCHANGED overlapped
        /\ UNCHANGED <<vars, response, totalBefore>>

\* the else branch of the handler: the service reported failure
IssueFailed(req, error) ==
    Respond(req, 500, FALSE, Null, "Failed to issue certificate on blockchain", error)

\* estimateGas runs the call against the current state and throws its revert
\* reason; the service's catch turns that into {success: false}
ServiceEstimateGas(r) ==
    LET req == requests[r]
        reason == issueCertificateRequires(Wallet, req.participantName,
                                           req.eventName, req.certificateHash)
    IN  /\ req.pc = "estimating"
        /\ IF reason # NoRevert
           THEN /\ requests' = [requests EXCEPT ![r] = IssueFailed(req, reason)]
                /\ uploads' = uploads \ {r}
           ELSE /\ requests' = [requests EXCEPT ![r] = [req EXCEPT !.pc = "sending"]]
                /\ UNCHANGED uploads
        /\ UNCHANGED <<vars, response, totalBefore, overlapped>>

\* the transaction is signed and sent
ServiceSendTransaction(r) ==
    /\ requests[r].pc = "sending"
    /\ requests' = [requests EXCEPT ![r].pc = "waiting"]
    /\ UNCHANGED <<vars, uploads, response, totalBefore, overlapped>>

\* faulty variant: a receipt of a reverted transaction is taken as success
txWait_ignoresStatus(call, logs) ==
    [success |-> TRUE,
     certificateId |-> IF call.reverted THEN Null
                       ELSE ToString(logs[Len(logs)].certificateId),
     error |-> ""]

\* tx.wait() throws when the mined transaction reverted; otherwise the id is
\* read from the CertificateIssued event of the receipt
txWait(call, logs) ==
    IF call.reverted
    THEN [success |-> FALSE, certificateId |-> Null, error |-> call.reason]
    ELSE [success |-> TRUE,
          certificateId |-> ToString(logs[Len(logs)].certificateId),
          error |-> ""]

\* the transaction is mined, tx.wait() returns or throws, and the handler
\* answers
ServiceWait(r) ==
    LET req == requests[r]
    IN  /\ req.pc = "waiting"
        /\ issueCertificate(Wallet, req.participantName, req.eventName,
                            req.certificateHash)
        /\ LET result == txWait(lastCall', events')
           IN  IF result.success
               THEN /\ requests' = [requests EXCEPT ![r] =
                           Respond(req, 200, TRUE, result.certificateId, "",
                                   "Certificate issued successfully")]
                    /\ UNCHANGED uploads
               ELSE /\ requests' = [requests EXCEPT ![r] =
                           IssueFailed(req, result.error)]
                    /\ uploads' = uploads \ {r}
        /\ UNCHANGED <<response, totalBefore, overlapped>>

(* ----------------------------- verify routes --------------------------- *)

RpcError == "could not detect network"

\* BlockchainService.verifyCertificateByHash
serviceVerifyCertificateByHash(certificateHash, rpcOk) ==
    LET result == verifyCertificateByHash(certificateHash)
    IN  IF ~rpcOk
        THEN [success |-> FALSE, error |-> RpcError]
        ELSE [success |-> TRUE,
              exists |-> result[1],
              certificateId |-> IF result[1] THEN ToString(result[2]) ELSE Null,
              participantName |-> result[3],
              eventName |-> result[4],
              timestamp |-> IF result[1] THEN toISOString(result[5]) ELSE Null,
              isValid |-> result[6]]

\* BlockchainService.verifyCertificateById
serviceVerifyCertificateById(certificateId, rpcOk) ==
    LET result == verifyCertificateById(certificateId)
    IN  IF ~rpcOk
        THEN [success |-> FALSE, error |-> RpcError]
        ELSE [success |-> TRUE,
              exists |-> result[1],
              participantName |-> result[2],
              eventName |-> result[3],
              certificateHash |-> result[4],
              timestamp |-> IF result[1] THEN toISOString(result[5]) ELSE Null,
              isValid |-> result[6]]

ValidMessage == "Certificate is valid and verified"
RevokedMessage == "Certificate exists but has been revoked"
NotFoundMessage == "Certificate not found"

\* faulty variant: isValid is not looked at
verificationMessage_ignoresIsValid(exists, isValid) ==
    IF exists THEN ValidMessage ELSE NotFoundMessage

\* the message of the two verify routes
verificationMessage(exists, isValid) ==
    IF exists
    THEN (IF isValid THEN ValidMessage ELSE RevokedMessage)
    ELSE NotFoundMessage

VerifyFailed(route, param, error) ==
    [route |-> route, param |-> param, status |-> 500, success |-> FALSE,
     verified |-> FALSE, data |-> Null, message |-> error]

BadRequest(route, param, error) ==
    [route |-> route, param |-> param, status |-> 400, success |-> FALSE,
     verified |-> FALSE, data |-> Null, message |-> error]

\* GET /verify/:hash
getVerifyHash(hash, rpcOk) ==
    LET result == serviceVerifyCertificateByHash(hash, rpcOk)
    IN  IF hash = ""
        THEN BadRequest("verify", hash, "Hash parameter is required")
        ELSE IF result.success
        THEN [route |-> "verify", param |-> hash, status |-> 200,
              success |-> TRUE,
              verified |-> result.exists,
              data |-> IF result.exists
                       THEN [certificateId |-> result.certificateId,
                             participantName |-> result.participantName,
                             eventName |-> result.eventName,
                             timestamp |-> result.timestamp,
                             isValid |-> result.isValid,
                             certificateHash |-> hash]
                       ELSE Null,
              message |-> verificationMessage(result.exists, result.isValid)]
        ELSE VerifyFailed("verify", hash, result.error)

\* the :id parameters tried: the decimal texts of the ids, and a non-number
IdParams == {ToString(i) : i \in CertificateIds} \cup {"abc"}

\* isNaN(id) of a route parameter
isNaN(id) == ~\E i \in CertificateIds : ToString(i) = id

\* the uint256 the contract call gets for a decimal text
toUint(id) == CHOOSE i \in CertificateIds : ToString(i) = id

\* GET /verify-id/:id
getVerifyId(id, rpcOk) ==
    IF id = "" \/ isNaN(id)
    THEN BadRequest("verify-id", id, "Valid certificate ID parameter is required")
    ELSE LET result == serviceVerifyCertificateById(toUint(id), rpcOk)
         IN  IF result.success
             THEN [route |-> "verify-id", param |-> id, status |-> 200,
                   success |-> TRUE,
                   verified |-> result.exists,
                   data |-> IF result.exists
                            THEN [certificateId |-> id,
                                  participantName |-> result.participantName,
                                  eventName |-> result.eventName,
                                  certificateHash |-> result.certificateHash,
                                  timestamp |-> result.timestamp,
                                  isValid |-> result.isValid]
                            ELSE Null,
                   message |-> verificationMessage(result.exists, result.isValid)]
             ELSE VerifyFailed("verify-id", id, result.error)

NoResponse ==
    [route |-> "none", param |-> "", status |-> 0, success |-> FALSE,
     verified |-> FALSE, data |-> Null, message |-> ""]

GetVerifyHash(hash, rpcOk) ==
    /\ response' = getVerifyHash(hash, rpcOk)
    /\ UNCHANGED <<vars, requests, uploads, totalBefore, overlapped>>

GetVerifyId(id, rpcOk) ==
    /\ response' = getVerifyId(id, rpcOk)
    /\ UNCHANGED <<vars, requests, uploads, totalBefore, overlapped>>

(* --------------------------- specifications ---------------------------- *)

\* no request has been made
ApiIdle ==
    /\ requests = [r \in RequestIds |-> NoRequest]
    /\ uploads = {}
    /\ response = NoResponse
    /\ totalBefore = getTotalCertificates
    /\ overlapped = FALSE

\* the contract alone, called directly: the API service makes no request
Init == constructor /\ ApiIdle

Spec == Init /\ [][Next]_allVars

\* the contract after the owner issued one certificate for the bytes "pdfA"
OneIssued ==
    /\ certificates = [i \in CertificateIds |->
                         IF i = 1
                         THEN Certificate("Alice", "Contest2024",
                                          generateFileHash("pdfA"),
                                          DeployTimestamp, TRUE)
                         ELSE ZeroCertificate]
    /\ hashToCertificateId = [h \in CertificateHashes |->
                                IF h = generateFileHash("pdfA") THEN 1 ELSE 0]
    /\ nextCertificateId = 2
    /\ owner = Deployer
    /\ events = <<CertificateIssued(1, "Alice", "Contest2024",
                                    generateFileHash("pdfA"))>>
    /\ blockTimestamp = DeployTimestamp
    /\ lastCall = Returned("issueCertificate", Deployer,
                           <<"Alice", "Contest2024", generateFileHash("pdfA")>>,
                           <<1>>)

\* the service starts on a fresh contract or on one that holds a certificate
ApiInit == (constructor \/ OneIssued) /\ ApiIdle

\* POST /issue, one step of request r
PostIssueStep(r) ==
    \/ \E p \in ParticipantNames, e \in EventNames,
          f \in FileContents \cup {NoFile} : Upload(r, p, e, f)
    \/ PostIssueValidate(r)
    \/ \E readOk \in BOOLEAN : PostIssueReadFile(r, readOk)
    \/ ServiceEstimateGas(r)
    \/ ServiceSendTransaction(r)
    \/ ServiceWait(r)

PostIssue == \E r \in RequestIds : PostIssueStep(r)

GetVerify ==
    \/ \E h \in CertificateHashes \ {""}, rpcOk \in BOOLEAN : GetVerifyHash(h, rpcOk)
    \/ \E id \in IdParams, rpcOk \in BOOLEAN : GetVerifyId(id, rpcOk)

\* the owner revokes a certificate with a transaction of their own: the
\* service has no route for it
OwnerRevoke ==
    /\ \E id \in CertificateIds : revokeCertificate(owner, id)
    /\ UNCHANGED apiVars

\* the issue route under concurrent requests
ApiNext == PostIssue \/ OwnerRevoke

ApiSpec == ApiInit /\ [][ApiNext]_allVars

\* the verify routes, with one issue request and the owner's revocations
\* changing the contract between the lookups
SingleIssue == PostIssueStep("reqA")

VerifyNext == GetVerify \/ SingleIssue \/ OwnerRevoke

VerifySpec == ApiInit /\ [][VerifyNext]_allVars

(* ------------------------------ history -------------------------------- *)

\* the CertificateIssued events, oldest first: one per successful
\* issueCertificate call
IssuedEvents == events

\* a successful issueCertificate call with this hash has happened
HashIssued(h) == \E k \in 1..Len(events) :
                    events[k].certificateHash = h

\* a successful issueCertificate call has returned this id
IdIssued(i) == \E k \in 1..Len(events) :
                  events[k].certificateId = i

\* the step is a call of fn: every step but MineBlock records its call in
\* lastCall, and only MineBlock changes blockTimestamp
Called(fn) == lastCall'.fn = fn /\ UNCHANGED blockTimestamp

IsRecordId(i) == 1 <= i /\ i < nextCertificateId

(* ------------------------------- claims -------------------------------- *)

\* C1: when the owner calls issueCertificate with three non-empty fields and
\* a hash that no earlier successful call issued, the call does not revert,
\* returns the value nextCertificateId had before the call, and
\* verifyCertificateByHash of that hash right after the call returns
\* exists = true, that id, the two names passed, and isValid = true.
C1_IssueThenLookup ==
    [][ \A p \in ParticipantNames, e \in EventNames, h \in CertificateHashes :
          LET found == verifyCertificateByHash(h)'
          IN  ( /\ Called("issueCertificate")
                /\ lastCall'.sender = owner
                /\ lastCall'.args = <<p, e, h>>
                /\ p # "" /\ e # "" /\ h # ""
                /\ ~HashIssued(h) )
              => ( /\ ~lastCall'.reverted
                   /\ lastCall'.ret = <<nextCertificateId>>
                   /\ found[1] = TRUE
                   /\ found[2] = nextCertificateId
                   /\ found[3] = p
                   /\ found[4] = e
                   /\ found[6] = TRUE ) ]_vars

\* C1 witness: the second certificate was just issued to Bob and is found by hash
C1_Witness ==
    /\ lastCall.fn = "issueCertificate"
    /\ ~lastCall.reverted
    /\ lastCall.ret = <<2>>
    /\ lastCall.args[1] = "Bob"
    /\ verifyCertificateByHash(lastCall.args[3]) =
          <<TRUE, 2, "Bob", "Contest2024", certificates[2].timestamp, TRUE>>

\* C2 (as stated): every issueCertificate call by the owner whose hash was
\* already issued reverts with DuplicateHashError and leaves
\* getTotalCertificates unchanged, whatever the two names are.
C2_Original ==
    [][ ( /\ Called("issueCertificate")
          /\ lastCall'.sender = owner
          /\ HashIssued(lastCall'.args[3]) )
        => ( /\ lastCall'.reverted
             /\ lastCall'.reason = DuplicateHashError
             /\ getTotalCertificates' = getTotalCertificates ) ]_vars

\* C2 (amended): every issueCertificate call by the owner whose hash was
\* already issued reverts and leaves getTotalCertificates unchanged, whether
\* or not the record holding the hash was revoked; the revert reason is
\* DuplicateHashError when both names are non-empty, and the empty-name
\* validation error otherwise.
C2_DuplicateHash ==
    [][ LET p == lastCall'.args[1]
            e == lastCall'.args[2]
            h == lastCall'.args[3]
        IN  ( /\ Called("issueCertificate")
              /\ lastCall'.sender = owner
              /\ HashIssued(h) )
            => ( /\ lastCall'.reverted
                 /\ getTotalCertificates' = getTotalCertificates
                 /\ (p # "" /\ e # "") => lastCall'.reason = DuplicateHashError
                 /\ (p = "" \/ e = "") => lastCall'.reason \in ValidationError ) ]_vars

\* C2 witness: the hash of a revoked record issued to Alice is issued again
\* for Bob, and the call reverted with DuplicateHashError
C2_Witness ==
    /\ lastCall.fn = "issueCertificate"
    /\ lastCall.sender = owner
    /\ lastCall.reason = DuplicateHashError
    /\ lastCall.args[1] = "Bob"
    /\ LET i == hashToCertificateId[lastCall.args[3]]
       IN  /\ IsRecordId(i)
           /\ certificates[i].participantName = "Alice"
           /\ ~certificates[i].isValid

\* C3: an issueCertificate or revokeCertificate call by a sender other than
\* the owner reverts with UnauthorizedError and leaves certificates,
\* hashToCertificateId and nextCertificateId (hence every isValid) unchanged.
C3_Unauthorized ==
    [][ ( /\ Called("issueCertificate") \/ Called("revokeCertificate")
          /\ lastCall'.sender # owner )
        => ( /\ lastCall'.reverted
             /\ lastCall'.reason = UnauthorizedError
             /\ UNCHANGED <<certificates, hashToCertificateId,
                            nextCertificateId>> ) ]_vars

\* C3 witness: a stranger tried to revoke a valid record and was refused
C3_Witness ==
    /\ lastCall.fn = "revokeCertificate"
    /\ lastCall.sender # owner
    /\ lastCall.reason = UnauthorizedError
    /\ IsRecordId(lastCall.args[1])
    /\ certificates[lastCall.args[1]].isValid

\* C4: a revokeCertificate call by the owner on an issued record succeeds
\* and clears isValid when isValid is true, and reverts with
\* AlreadyRevokedError, isValid staying false, when isValid is false.
C4_RevokeTwice ==
    [][ LET id == lastCall'.args[1]
        IN  ( /\ Called("revokeCertificate")
              /\ lastCall'.sender = owner
              /\ IsRecordId(id) )
            => IF certificates[id].isValid
               THEN /\ ~lastCall'.reverted
                    /\ ~certificates'[id].isValid
               ELSE /\ lastCall'.reverted
                    /\ lastCall'.reason = AlreadyRevokedError
                    /\ ~certificates'[id].isValid ]_vars

\* C4 witness: the owner revoked a record a second time and the call reverted
C4_Witness ==
    /\ lastCall.fn = "revokeCertificate"
    /\ lastCall.sender = owner
    /\ lastCall.reason = AlreadyRevokedError
    /\ IsRecordId(lastCall.args[1])
    /\ ~certificates[lastCall.args[1]].isValid

\* C5: no step changes the isValid of an issued record from false to true.
C5_IsValidMonotonic ==
    [][ \A i \in CertificateIds :
          (IsRecordId(i) /\ ~certificates[i].isValid)
             => ~certificates'[i].isValid ]_vars

\* C5 witness: record 1 was revoked, a second certificate was issued, and an
\* issue attempt reusing the hash of record 1 was just made; record 1 is
\* still invalid
C5_Witness ==
    /\ nextCertificateId = 3
    /\ certificates[2].isValid
    /\ lastCall.fn = "issueCertificate"
    /\ lastCall.sender = owner
    /\ lastCall.args[3] = certificates[1].certificateHash
    /\ ~certificates[1].isValid

\* C6: getTotalCertificates always equals nextCertificateId - 1 and the
\* number of successful issueCertificate calls so far; a revokeCertificate
\* call and a reverted call never change it.
C6_TotalIsIssuedCount ==
    /\ [](/\ getTotalCertificates = nextCertificateId - 1
          /\ getTotalCertificates = Len(IssuedEvents))
    /\ [][ (Called("revokeCertificate") \/ lastCall'.reverted)
             => getTotalCertificates' = getTotalCertificates ]_vars

\* C6 witness: two certificates issued, one of them just revoked, total is 2
C6_Witness ==
    /\ lastCall.fn = "revokeCertificate"
    /\ ~lastCall.reverted
    /\ Len(IssuedEvents) = 2
    /\ getTotalCertificates = 2

\* C7: verifyCertificateById(i) returns the not-found tuple for i = 0 and
\* for every i >= nextCertificateId, and exists = true for 1 <= i <
\* nextCertificateId; the ids found are exactly the ids issued so far.
C7_LookupByIdRange ==
    \A i \in CertificateIds :
        /\ (i = 0 \/ i >= nextCertificateId)
              => verifyCertificateById(i) = <<FALSE, "", "", "", 0, FALSE>>
        /\ (1 <= i /\ i < nextCertificateId) => verifyCertificateById(i)[1] = TRUE
        /\ verifyCertificateById(i)[1] = IdIssued(i)

\* C7 witness: with one certificate issued, verifyCertificateById(nextCertificateId)
\* was called and returned not-found, while id 1 is found
C7_Witness ==
    /\ lastCall.fn = "verifyCertificateById"
    /\ nextCertificateId = 2
    /\ lastCall.args = <<nextCertificateId>>
    /\ ~lastCall.reverted
    /\ lastCall.ret[1] = FALSE
    /\ verifyCertificateById(1)[1] = TRUE
    /\ verifyCertificateById(0)[1] = FALSE

\* C8: an issueCertificate or revokeCertificate call that reverts, for any
\* reason, leaves certificates, hashToCertificateId, nextCertificateId and
\* owner as they were.
C8_FailedCallNoEffect ==
    [][ ( /\ Called("issueCertificate") \/ Called("revokeCertificate")
          /\ lastCall'.reverted )
        => UNCHANGED storage ]_vars

\* C8 witness: the owner's issue of an already issued hash reverted, with
\* records present both valid and revoked
C8_Witness ==
    /\ lastCall.fn = "issueCertificate"
    /\ lastCall.reverted
    /\ lastCall.reason = DuplicateHashError
    /\ nextCertificateId = 3
    /\ certificates[1].isValid
    /\ ~certificates[2].isValid

\* C9: the k-th successful issueCertificate call returned id k, whatever
\* reverted calls and revocations happened in between, and
\* nextCertificateId is greater than every id returned so far.
C9_SequentialIds ==
    /\ \A k \in 1..Len(IssuedEvents) :
          /\ IssuedEvents[k].certificateId = k
          /\ IssuedEvents[k].certificateId < nextCertificateId
    /\ (lastCall.fn = "issueCertificate" /\ ~lastCall.reverted)
          => lastCall.ret = <<Len(IssuedEvents)>>

\* C9 witness: the second successful issue came after a revocation of record
\* 1 and returned id 2
C9_Witness ==
    /\ lastCall.fn = "issueCertificate"
    /\ ~lastCall.reverted
    /\ lastCall.ret = <<2>>
    /\ ~certificates[1].isValid
    /\ nextCertificateId = 3

\* C10: hashToCertificateId maps h to a non-zero id i exactly when
\* 1 <= i < nextCertificateId and certificates[i].certificateHash = h; no two
\* records share a hash, no hash maps to an id >= nextCertificateId, and the
\* empty hash maps to 0.
C10_IndexMatchesRecords ==
    /\ \A h \in CertificateHashes, i \in CertificateIds :
          (hashToCertificateId[h] = i /\ i # 0)
             <=> (IsRecordId(i) /\ certificates[i].certificateHash = h)
    /\ \A i, j \in CertificateIds :
          (IsRecordId(i) /\ IsRecordId(j)
              /\ certificates[i].certificateHash = certificates[j].certificateHash)
             => i = j
    /\ \A h \in CertificateHashes : hashToCertificateId[h] < nextCertificateId
    /\ hashToCertificateId[""] = 0

\* C10 witness: two records with different hashes, each indexed under its own
\* hash, one hash still unused
C10_Witness ==
    /\ nextCertificateId = 3
    /\ hashToCertificateId[certificates[1].certificateHash] = 1
    /\ hashToCertificateId[certificates[2].certificateHash] = 2
    /\ \E h \in CertificateHashes : h # "" /\ hashToCertificateId[h] = 0

\* the three outcomes of a lookup: <<exists, isValid>>
Unknown == <<FALSE, FALSE>>
KnownRevoked == <<TRUE, FALSE>>
Valid == <<TRUE, TRUE>>

\* C11: for every hash and every id, verifyCertificateByHash and
\* verifyCertificateById return exists/isValid as one of unknown (false,
\* false), known but revoked (true, false) or valid (true, true), never
\* (false, true); and a lookup call never reverts.
C11_ThreeOutcomes ==
    /\ \A h \in CertificateHashes :
          <<verifyCertificateByHash(h)[1], verifyCertificateByHash(h)[6]>>
             \in {Unknown, KnownRevoked, Valid}
    /\ \A i \in CertificateIds :
          <<verifyCertificateById(i)[1], verifyCertificateById(i)[6]>>
             \in {Unknown, KnownRevoked, Valid}
    /\ lastCall.fn \in {"verifyCertificateByHash", "verifyCertificateById"}
          => ~lastCall.reverted

\* C11 witness: all three outcomes are present at once, by hash and by id,
\* and the by-hash lookup just called returned known but revoked
C11_Witness ==
    /\ lastCall.fn = "verifyCertificateByHash"
    /\ <<lastCall.ret[1], lastCall.ret[6]>> = KnownRevoked
    /\ \E h \in CertificateHashes :
          <<verifyCertificateByHash(h)[1], verifyCertificateByHash(h)[6]>> = Valid
    /\ \E h \in CertificateHashes :
          <<verifyCertificateByHash(h)[1], verifyCertificateByHash(h)[6]>> = Unknown
    /\ \E i, j, k \in CertificateIds :
          /\ <<verifyCertificateById(i)[1], verifyCertificateById(i)[6]>> = Valid
          /\ <<verifyCertificateById(j)[1], verifyCertificateById(j)[6]>> = KnownRevoked
          /\ <<verifyCertificateById(k)[1], verifyCertificateById(k)[6]>> = Unknown

\* C12: once verifyCertificateById(i) or verifyCertificateByHash(h) reports
\* exists = true, it reports exists = true after every step, with the same id,
\* participantName, eventName, certificateHash and timestamp; a step changes
\* nothing of an issued record but isValid (the sixth value of both lookups).
C12_RecordsImmutable ==
    [][ /\ \A i \in CertificateIds :
             \A before \in {verifyCertificateById(i)} :
                before[1] = TRUE
                   => \A after \in {verifyCertificateById(i)'} :
                         after = [before EXCEPT ![6] = after[6]]
        /\ \A h \in CertificateHashes :
             \A before \in {verifyCertificateByHash(h)} :
                before[1] = TRUE
                   => \A after \in {verifyCertificateByHash(h)'} :
                         after = [before EXCEPT ![6] = after[6]]
        /\ \A i \in CertificateIds :
             IsRecordId(i)
                => certificates'[i] =
                      [certificates[i] EXCEPT !.isValid = certificates'[i].isValid]
      ]_vars

\* C12 witness: record 1, issued to Alice in the deployment block, was revoked
\* in a later block after a second record was issued, and still carries its
\* name, hash and timestamp
C12_Witness ==
    /\ lastCall.fn = "revokeCertificate"
    /\ ~lastCall.reverted
    /\ lastCall.args = <<1>>
    /\ nextCertificateId = 3
    /\ verifyCertificateById(1) =
          <<TRUE, "Alice", "Contest2024", "aaa111", DeployTimestamp, FALSE>>
    /\ blockTimestamp > DeployTimestamp
    /\ verifyCertificateByHash("aaa111")[2] = 1

\* C13: an issueCertificate call by the owner with an empty participantName,
\* eventName or certificateHash reverts with the matching empty-field
\* message, and leaves certificates, hashToCertificateId and
\* nextCertificateId unchanged.
C13_EmptyFieldRejected ==
    [][ \A p \in ParticipantNames, e \in EventNames, h \in CertificateHashes :
          ( /\ Called("issueCertificate")
            /\ lastCall'.sender = owner
            /\ lastCall'.args = <<p, e, h>>
            /\ p = "" \/ e = "" \/ h = "" )
          => ( /\ lastCall'.reverted
               /\ lastCall'.reason \in ValidationError
               /\ UNCHANGED <<certificates, hashToCertificateId,
                              nextCertificateId>> ) ]_vars

\* C13 witness: the owner's issue of a fresh hash for Alice with an empty
\* event name reverted
C13_Witness ==
    /\ lastCall.fn = "issueCertificate"
    /\ lastCall.sender = owner
    /\ lastCall.args[1] = "Alice"
    /\ lastCall.args[2] = ""
    /\ lastCall.args[3] # ""
    /\ ~HashIssued(lastCall.args[3])
    /\ lastCall.reason = EventEmptyError
    /\ nextCertificateId = 2

\* the error an issueCertificate call must report, by the order of the claim
ExpectedIssueError(sender, p, e, h) ==
    IF sender # owner THEN UnauthorizedError
    ELSE IF p = "" THEN ParticipantEmptyError
    ELSE IF e = "" THEN EventEmptyError
    ELSE IF h = "" THEN HashEmptyError
    ELSE IF HashIssued(h) THEN DuplicateHashError
    ELSE NoRevert

\* the error a revokeCertificate call must report, by the order of the claim
ExpectedRevokeError(sender, id) ==
    IF sender # owner THEN UnauthorizedError
    ELSE IF ~IdIssued(id) THEN NotFoundError
    ELSE IF ~certificates[id].isValid THEN AlreadyRevokedError
    ELSE NoRevert

\* C15: the error reported follows a fixed order. issueCertificate:
\* unauthorized, then empty participantName, eventName, certificateHash, then
\* duplicate hash. revokeCertificate: unauthorized, then invalid id, then
\* already revoked; so the owner's revoke of id 0 or of an id >=
\* nextCertificateId reports the invalid-id error, and a non-owner always
\* gets the unauthorized error.
C15_ErrorOrder ==
    [][ /\ \A a \in Addresses, p \in ParticipantNames, e \in EventNames,
             h \in CertificateHashes :
             ( /\ Called("issueCertificate")
               /\ lastCall'.sender = a
               /\ lastCall'.args = <<p, e, h>> )
             => lastCall'.reason = ExpectedIssueError(a, p, e, h)
        /\ \A a \in Addresses, id \in CertificateIds :
             ( /\ Called("revokeCertificate")
               /\ lastCall'.sender = a
               /\ lastCall'.args = <<id>> )
             => /\ lastCall'.reason = ExpectedRevokeError(a, id)
                /\ (a = owner /\ (id = 0 \/ id >= nextCertificateId))
                      => lastCall'.reason = NotFoundError
                /\ a # owner => lastCall'.reason = UnauthorizedError
      ]_vars

\* C15 witness: the owner revoked id 0, whose storage slot reads isValid =
\* false, while a revoked record exists, and the call reported the invalid-id
\* error
C15_Witness ==
    /\ lastCall.fn = "revokeCertificate"
    /\ lastCall.sender = owner
    /\ lastCall.args = <<0>>
    /\ ~certificates[0].isValid
    /\ lastCall.reason = NotFoundError
    /\ \E i \in CertificateIds : IsRecordId(i) /\ ~certificates[i].isValid

\* C16: a revokeCertificate call that succeeds on id i changes nothing but
\* certificates[i].isValid: nextCertificateId, getTotalCertificates,
\* hashToCertificateId, the other fields of record i and every other record
\* stay, and verifyCertificateByHash of the record's hash still returns
\* exists = true with id i, now with isValid = false.
C16_RevokeFrame ==
    [][ \A i \in CertificateIds :
          ( /\ Called("revokeCertificate")
            /\ lastCall'.args = <<i>>
            /\ ~lastCall'.reverted )
          => LET found == verifyCertificateByHash(certificates[i].certificateHash)'
             IN  /\ certificates' = [certificates EXCEPT ![i].isValid = FALSE]
                 /\ UNCHANGED <<hashToCertificateId, nextCertificateId, owner>>
                 /\ getTotalCertificates' = getTotalCertificates
                 /\ found[1] = TRUE
                 /\ found[2] = i
                 /\ found[6] = FALSE ]_vars

\* C16 witness: record 2 of two was just revoked; record 1 is still valid and
\* the hash of record 2 is still found
C16_Witness ==
    /\ lastCall.fn = "revokeCertificate"
    /\ ~lastCall.reverted
    /\ lastCall.args = <<2>>
    /\ nextCertificateId = 3
    /\ certificates[1].isValid
    /\ verifyCertificateByHash(certificates[2].certificateHash) =
          <<TRUE, 2, certificates[2].participantName, certificates[2].eventName,
            certificates[2].timestamp, FALSE>>

\* the callers that pass the onlyOwner modifier
Authorized == {a \in Addresses : onlyOwner(a)}

\* C19: owner is the address that deployed the contract in every state, so
\* the callers able to issue or revoke are always exactly the deployer.
C19_OwnerFixed ==
    /\ owner = Deployer
    /\ Authorized = {Deployer}

\* C19 witness: after certificates were issued and one revoked, another
\* address tried to issue and was refused; the owner is still the deployer
C19_Witness ==
    /\ owner = Deployer
    /\ lastCall.fn = "issueCertificate"
    /\ lastCall.sender # Deployer
    /\ lastCall.reason = UnauthorizedError
    /\ nextCertificateId = 3
    /\ ~certificates[1].isValid

(* ---------------------------- claims, API ------------------------------ *)

Done(r) == requests[r].pc = "done"

Succeeded(r) == Done(r) /\ requests[r].success

\* both requests have ended, and they were inside issueCertificate at once
RanConcurrently == overlapped /\ \A r \in RequestIds : Done(r)

SameHash(r, q) == requests[r].certificateHash = requests[q].certificateHash

\* C14 (as stated): when two issue requests with the same hash have run
\* concurrently through the service, at most one ended with success and
\* getTotalCertificates grew by exactly one; with different hashes, the
\* successful ones got distinct ids.
C14_Original ==
    RanConcurrently =>
       \A r, q \in RequestIds :
          r # q =>
             /\ SameHash(r, q)
                   => /\ ~(Succeeded(r) /\ Succeeded(q))
                      /\ getTotalCertificates = totalBefore + 1
             /\ (~SameHash(r, q) /\ Succeeded(r) /\ Succeeded(q))
                   => requests[r].certificateId # requests[q].certificateId

\* C14 (amended): when two issue requests with the same hash have run
\* concurrently through the service, at most one ended with success and
\* getTotalCertificates grew by at most one, by exactly one when one of them
\* ended with success; with different hashes, the successful ones got
\* distinct ids.
C14_ConcurrentIssue ==
    RanConcurrently =>
       \A r, q \in RequestIds :
          r # q =>
             /\ SameHash(r, q)
                   => /\ ~(Succeeded(r) /\ Succeeded(q))
                      /\ getTotalCertificates <= totalBefore + 1
                      /\ (Succeeded(r) \/ Succeeded(q))
                            => getTotalCertificates = totalBefore + 1
             /\ (~SameHash(r, q) /\ Succeeded(r) /\ Succeeded(q))
                   => requests[r].certificateId # requests[q].certificateId

\* C14 witness: both requests passed estimateGas and sent their transaction
\* for the same hash; the first one mined succeeded, the second reverted
\* with the duplicate-hash reason and its request ended with failure
C14_Witness ==
    /\ RanConcurrently
    /\ SameHash("reqA", "reqB")
    /\ Succeeded("reqA")
    /\ requests["reqA"].certificateId = "1"
    /\ ~Succeeded("reqB")
    /\ requests["reqB"].message = DuplicateHashError
    /\ lastCall.fn = "issueCertificate"
    /\ lastCall.reverted
    /\ lastCall.reason = DuplicateHashError
    /\ getTotalCertificates = totalBefore + 1

\* what the contract's lookup returns for the parameter of a verify response
LookupOf(resp) ==
    IF resp.route = "verify"
    THEN <<verifyCertificateByHash(resp.param)[1],
           verifyCertificateByHash(resp.param)[6]>>
    ELSE <<verifyCertificateById(toUint(resp.param))[1],
           verifyCertificateById(toUint(resp.param))[6]>>

\* the response fits the lookup of the current contract state
VerifyResponseFits(resp) ==
    resp.status = 200
       => LET exists == LookupOf(resp)[1]
              isValid == LookupOf(resp)[2]
          IN  /\ resp.message \in {ValidMessage, RevokedMessage, NotFoundMessage}
              /\ resp.message = ValidMessage <=> (exists /\ isValid)
              /\ resp.message = RevokedMessage <=> (exists /\ ~isValid)
              /\ resp.message = NotFoundMessage <=> ~exists
              /\ resp.data = Null <=> ~exists
              /\ resp.verified = exists

C18_FileKeptOnlyOnSuccess ==
    \A r \in RequestIds :
       (Done(r) /\ requests[r].file # NoFile /\ r \in uploads)
          => (requests[r].status = 200 /\ requests[r].success)

====
